---- MODULE Spec2Model ----
\* A model of academic_chat.py: the search / filter / retweet loop of the bot.
\* Strings are sequences of symbols, so that Python's substring test `in`
\* is computed and not assumed.
EXTENDS Integers, Sequences, FiniteSets, TLC

\* ---------------------------------------------------------------- bounds
\* Longest tweet text (in symbols) the searcher returns in the model.
MaxTextLen == 2
\* Longest result sequence a cursor yields in the model (the code's own
\* limits are RecentLimit and PopularLimit).
MaxResults == 3
\* Longest query file, in lines.
MaxLines == 2

\* ---------------------------------------------------------------- universe
\* Symbols of tweet texts and block words: one letter in both cases.
Alphabet == {"a", "A"}
\* Screen names of tweet authors.
Accounts == {"troll", "scholar"}
Texts == UNION {[1..n -> Alphabet] : n \in 0..MaxTextLen}
Tweets == [user : Accounts, text : Texts]
NoTweet == [user |-> "none", text |-> << >>]

\* Reasons a TweepError may carry, as sequences of words.
FailedToSendRequest == <<"Failed", "to", "send", "request">>
NoReason == <<"no", "error">>
Reasons ==
    { <<"Failed", "to", "send", "request", "timeout">>,
      <<"HTTPSConnectionPool", "Failed", "to", "send", "request">>,
      <<"Failed", "to", "send">>,
      <<"status", "403">> }

\* ---------------------------------------------------------------- constants
RecentLimit == 1
PopularLimit == 10
TransientWait == 240
NotFoundSleep == 600
NotFoundAnnounced == 800
FoundSleep == 1600
FoundAnnounced == 1600
\* Python's None for successful_query_idx.
None == -1

Min(a, b) == IF a < b THEN a ELSE b

\* Python's `needle in hay` on strings.
Contains(needle, hay) ==
    \E k \in 0..(Len(hay) - Len(needle)) :
        SubSeq(hay, k + 1, k + Len(needle)) = needle

\* ------------------------------------------------------------ make_queries
\* Strings are sequences of tokens here; a token is a run of characters that
\* the program only ever moves around whole.
Whitespace == {" ", "\n"}

RECURSIVE lstrip(_)
lstrip(s) ==
    IF s = << >> THEN s
    ELSE IF Head(s) \in Whitespace THEN lstrip(Tail(s)) ELSE s

RECURSIVE rstrip(_)
rstrip(s) ==
    IF s = << >> THEN s
    ELSE IF s[Len(s)] \in Whitespace
           THEN rstrip(SubSeq(s, 1, Len(s) - 1)) ELSE s

\* str.strip()
strip(s) == rstrip(lstrip(s))

\* Lines a never_share_words file may hold (a blank line included), as
\* readlines() returns them.
WordLines == {<<"\n">>, <<"a", "\n">>, <<"a", "A", "\n">>}
\* The entries make_config keeps of them: set(l.strip() for l in ...).
Words == {strip(l) : l \in WordLines}

\* sep.join(list)
RECURSIVE join(_, _)
join(sep, list) ==
    IF list = << >> THEN << >>
    ELSE IF Len(list) = 1 THEN list[1]
    ELSE list[1] \o sep \o join(sep, Tail(list))

\* " -filter:retweets AND -filter:replies AND -from:"
ExclusionClauses == <<" -filter:retweets AND -filter:replies AND -from:">>

\* The query built from one file without stripping its lines.
build_query_unstripped(lines, twitter_handle) ==
    join(<<" OR ">>, [k \in 1..Len(lines) |-> <<"(">> \o lines[k] \o <<")">>])
        \o ExclusionClauses \o twitter_handle

\* ["(" + l.strip() + ")" for l in f.readlines()], joined with " OR ", then
\* the exclusion clauses and the handle.
build_query(lines, twitter_handle) ==
    join(<<" OR ">>,
         [k \in 1..Len(lines) |-> <<"(">> \o strip(lines[k]) \o <<")">>])
        \o ExclusionClauses \o twitter_handle

\* make_queries(env): the three files go through the same construction.
make_queries(e) ==
    [direct |-> build_query(e.direct, e.twitter_handle),
     indirect |-> build_query(e.indirect, e.twitter_handle),
     popular |-> build_query(e.popular, e.twitter_handle)]

\* Lines a query file may hold, as readlines() returns them.
QueryLines ==
    { <<"#foo", "\n">>,
      <<"#bar", "\n">>,
      <<" ", "#baz", " ", "OR", " ", "@acct", " ", "\n">> }
QueryFiles == UNION {[1..n -> QueryLines] : n \in 0..MaxLines}
Handles == {<<"acct">>, <<"bot">>}
Envs ==
    [direct : QueryFiles, indirect : QueryFiles, popular : QueryFiles,
     twitter_handle : Handles]
\* The files of the run the control loop is followed in.
RunEnv ==
    [direct |-> << <<"#foo", "\n">>, <<"#bar", "\n">> >>,
     indirect |-> << <<"#bar", "\n">> >>,
     popular |-> << <<"#foo", "\n">> >>,
     twitter_handle |-> <<"acct">>]
NoQueries == [direct |-> << >>, indirect |-> << >>, popular |-> << >>]

\* query_list of search_loop, in the order of the list literal.
query_list ==
    << [fn |-> "search", query |-> "direct"],
       [fn |-> "popular_search", query |-> "popular"],
       [fn |-> "search", query |-> "indirect"] >>

\* items(n) of the cursor each search function builds.
Limit(fn) == IF fn = "search" THEN RecentLimit ELSE PopularLimit

\* The account test with its sense inverted.
BlockedAccountInverted(c, t) == t.user \notin c.block_accounts

\* tweet.user.screen_name in config.block_accounts
BlockedAccount(c, t) == t.user \in c.block_accounts

\* The word test passing over empty entries of the list.
BlockedWordIgnoresEmpty(c, t) ==
    \E word \in c.block_words : word # << >> /\ Contains(word, t.text)

\* The word test comparing the whole text instead of searching it.
BlockedWordEquals(c, t) == \E word \in c.block_words : word = t.text

\* any(word in tweet.text for word in config.block_words)
BlockedWord(c, t) == \E word \in c.block_words : Contains(word, t.text)

\* retweet(config, tweet) without its dry-run test.
RetweetOutcomesIgnoreDryrun(c) == {"ok", "TweepError", "other_error"}

\* What retweet(config, tweet) can do: nothing in a dry run, otherwise the
\* outcomes of tweet.retweet().
RetweetOutcomes(c) ==
    IF c.dryrun THEN {"dry"} ELSE {"ok", "TweepError", "other_error"}

\* The caller testing `is not None` instead of the value's truth.
TruthyNotNone(r) == r # "None"

\* bool(x) of the value try_search_and_retweet returns.
Truthy(r) == r = "True"

VARIABLES
    config,                 \* Config: block_accounts, block_words, dryrun
    env,                    \* the query files and TWITTER_HANDLE
    queries,                \* Queries: direct, indirect, popular
    pc,                     \* position of the single thread of control
    successful_query_idx,   \* search_loop local
    i,                      \* search_loop: index of the for loop
    nItems,                 \* items the current cursor will yield
    pos,                    \* items consumed from the current cursor
    tweet,                  \* try_search_and_retweet: loop variable
    reason,                 \* e.reason of the caught TweepError
    ret,                    \* value returned by try_search_and_retweet
    raised,                 \* exception that left search_loop, if any
    searched,               \* this cycle: indices searched, in order
    barren,                 \* this cycle: indices whose cursor ran out with
                            \* every item skipped
    attempts,               \* this cycle: calls of retweet(config, tweet)
    external,               \* this cycle: calls of tweet.retweet()
    waited,                 \* this call: seconds slept in the except clause
    waits,                  \* this call: number of sleeps in the except clause
    skipped,                \* this call: items skipped by a filter
    backoff,                \* this cycle: seconds slept after the for loop
    backoffs,               \* this cycle: number of sleeps after the for loop
    announced,              \* this cycle: seconds named in the status line
    status                  \* this cycle: which status line was printed

loopVars == << successful_query_idx, i >>
cursor == << nItems, pos >>
waitVars == << waited, waits >>
sleepVars == << backoff, backoffs, announced, status >>
searchHist == << searched, barren >>
static == << config, env, queries >>

vars ==
    << static, pc, loopVars, cursor, tweet, reason, ret, raised, searchHist,
       attempts, external, waitVars, skipped, sleepVars >>

Configs ==
    [block_accounts : SUBSET Accounts, block_words : SUBSET Words,
     dryrun : BOOLEAN]

\* The locals and the observations before the first cycle.
Fresh ==
    /\ successful_query_idx = None
    /\ i = 0
    /\ nItems = 0
    /\ pos = 0
    /\ tweet = NoTweet
    /\ reason = NoReason
    /\ ret = "None"
    /\ raised = "none"
    /\ searched = << >>
    /\ barren = {}
    /\ attempts = << >>
    /\ external = 0
    /\ waited = 0
    /\ waits = 0
    /\ skipped = 0
    /\ backoff = 0
    /\ backoffs = 0
    /\ announced = 0
    /\ status = "none"

\* search_loop(config, queries) is entered with what make_config and
\* make_queries returned.
Init ==
    /\ config \in Configs
    /\ env = RunEnv
    /\ queries = make_queries(env)
    /\ pc = "while"
    /\ Fresh

\* The loop with successful_query_idx = None set once, before the while.
StartCycleKeepsIndex ==
    /\ pc = "while"
    /\ pc' = "for"
    /\ i' = 0
    /\ ret' = "None"
    /\ searched' = << >>
    /\ barren' = {}
    /\ attempts' = << >>
    /\ external' = 0
    /\ backoff' = 0
    /\ backoffs' = 0
    /\ announced' = 0
    /\ status' = "none"
    /\ UNCHANGED << static, successful_query_idx, cursor, tweet, reason,
                    raised, waitVars, skipped >>

\* while True: successful_query_idx = None; the for loop starts at index 0.
StartCycle ==
    /\ pc = "while"
    /\ pc' = "for"
    /\ successful_query_idx' = None
    /\ i' = 0
    /\ ret' = "None"
    /\ searched' = << >>
    /\ barren' = {}
    /\ attempts' = << >>
    /\ external' = 0
    /\ backoff' = 0
    /\ backoffs' = 0
    /\ announced' = 0
    /\ status' = "none"
    /\ UNCHANGED << static, cursor, tweet, reason, raised, waitVars, skipped >>

\* try_search_and_retweet(config, search_fn, query): search_fn builds the
\* cursor; the platform decides how many items it will yield (at most items(n)).
Search ==
    /\ pc = "for"
    /\ \E n \in 0..Min(Limit(query_list[i + 1].fn), MaxResults) : nItems' = n
    /\ pos' = 0
    /\ waited' = 0
    /\ waits' = 0
    /\ skipped' = 0
    /\ tweet' = NoTweet
    /\ reason' = NoReason
    /\ ret' = "None"
    /\ searched' = Append(searched, i)
    /\ barren' = barren
    /\ pc' = "iter"
    /\ UNCHANGED << static, loopVars, raised, attempts, external, sleepVars >>

\* for tweet in ...: the cursor yields its next item.
NextTweet ==
    /\ pc = "iter"
    /\ pos < nItems
    /\ \E t \in Tweets : tweet' = t
    /\ pos' = pos + 1
    /\ pc' = "filter"
    /\ UNCHANGED << static, loopVars, nItems, reason, ret, raised, searchHist,
                    attempts, external, waitVars, skipped, sleepVars >>

\* The cursor is exhausted: the function falls off its end and returns None.
Exhausted ==
    /\ pc = "iter"
    /\ pos = nItems
    /\ ret' = "None"
    /\ pc' = "ret"
    /\ UNCHANGED << static, loopVars, cursor, tweet, reason, raised, searchHist,
                    attempts, external, waitVars, skipped, sleepVars >>

\* The error of the cursor caught around the for statement: the call ends
\* as if the cursor had run out.
SearchRaisesCaught ==
    /\ pc = "iter"
    /\ raised' = "search_error"
    /\ ret' = "None"
    /\ pc' = "ret"
    /\ UNCHANGED << static, loopVars, cursor, tweet, reason, searchHist,
                    attempts, external, waitVars, skipped, sleepVars >>

\* The cursor raises while it is consumed; nothing catches it.
SearchRaises ==
    /\ pc = "iter"
    /\ raised' = "search_error"
    /\ pc' = "crashed"
    /\ UNCHANGED << static, loopVars, cursor, tweet, reason, ret, searchHist,
                    attempts, external, waitVars, skipped, sleepVars >>

\* if tweet.user.screen_name in config.block_accounts: continue
SkipBlockedAccount ==
    /\ pc = "filter"
    /\ BlockedAccount(config, tweet)
    /\ skipped' = skipped + 1
    /\ pc' = "iter"
    /\ UNCHANGED << static, loopVars, cursor, tweet, reason, ret, raised,
                    searchHist, attempts, external, waitVars, sleepVars >>

\* if any(word in tweet.text for word in config.block_words): continue
SkipBlockedWord ==
    /\ pc = "filter"
    /\ ~BlockedAccount(config, tweet)
    /\ BlockedWord(config, tweet)
    /\ skipped' = skipped + 1
    /\ pc' = "iter"
    /\ UNCHANGED << static, loopVars, cursor, tweet, reason, ret, raised,
                    searchHist, attempts, external, waitVars, sleepVars >>

\* Neither filter matched: the tweet is printed and the try block entered.
PassFilters ==
    /\ pc = "filter"
    /\ ~BlockedAccount(config, tweet)
    /\ ~BlockedWord(config, tweet)
    /\ pc' = "try"
    /\ UNCHANGED << static, loopVars, cursor, tweet, reason, ret, raised,
                    searchHist, attempts, external, waitVars, skipped,
                    sleepVars >>

\* The record of one call of retweet(config, tweet).
Attempt(outcome) == [tweet |-> tweet, idx |-> i, outcome |-> outcome]

\* retweet(config, tweet) with config.dryrun: prints, then return True.
RetweetDryRun ==
    /\ pc = "try"
    /\ "dry" \in RetweetOutcomes(config)
    /\ attempts' = Append(attempts, Attempt("dry"))
    /\ ret' = "True"
    /\ pc' = "ret"
    /\ UNCHANGED << static, loopVars, cursor, tweet, reason, raised, searchHist,
                    external, waitVars, skipped, sleepVars >>

\* tweet.retweet() returns: return True.
RetweetSucceeds ==
    /\ pc = "try"
    /\ "ok" \in RetweetOutcomes(config)
    /\ attempts' = Append(attempts, Attempt("ok"))
    /\ external' = external + 1
    /\ ret' = "True"
    /\ pc' = "ret"
    /\ UNCHANGED << static, loopVars, cursor, tweet, reason, raised, searchHist,
                    waitVars, skipped, sleepVars >>

\* The TweepError of tweet.retweet() met by no except clause.
RetweetTweepErrorUncaught ==
    /\ pc = "try"
    /\ "TweepError" \in RetweetOutcomes(config)
    /\ \E r \in Reasons : reason' = r
    /\ attempts' = Append(attempts, Attempt("TweepError"))
    /\ external' = external + 1
    /\ raised' = "TweepError"
    /\ pc' = "crashed"
    /\ UNCHANGED << static, loopVars, cursor, tweet, ret, searchHist,
                    waitVars, skipped, sleepVars >>

\* tweet.retweet() raises tweepy.TweepError: the except clause takes it.
RetweetTweepError ==
    /\ pc = "try"
    /\ "TweepError" \in RetweetOutcomes(config)
    /\ \E r \in Reasons : reason' = r
    /\ attempts' = Append(attempts, Attempt("TweepError"))
    /\ external' = external + 1
    /\ pc' = "except"
    /\ UNCHANGED << static, loopVars, cursor, tweet, ret, raised, searchHist,
                    waitVars, skipped, sleepVars >>

\* tweet.retweet() raises something that is no TweepError: nothing catches it.
RetweetOtherError ==
    /\ pc = "try"
    /\ "other_error" \in RetweetOutcomes(config)
    /\ attempts' = Append(attempts, Attempt("other_error"))
    /\ external' = external + 1
    /\ raised' = "other_error"
    /\ pc' = "crashed"
    /\ UNCHANGED << static, loopVars, cursor, tweet, reason, ret, searchHist,
                    waitVars, skipped, sleepVars >>

\* The except clause comparing the reason with == instead of searching it.
HandleTweepErrorEquals ==
    /\ pc = "except"
    /\ IF reason = FailedToSendRequest
         THEN /\ waited' = waited + TransientWait
              /\ waits' = waits + 1
         ELSE UNCHANGED waitVars
    /\ ret' = "False"
    /\ pc' = "ret"
    /\ UNCHANGED << static, loopVars, cursor, tweet, reason, raised,
                    searchHist, attempts, external, skipped, sleepVars >>

\* The except clause ending in `continue` instead of `return False`.
HandleTweepErrorContinue ==
    /\ pc = "except"
    /\ IF Contains(FailedToSendRequest, reason)
         THEN /\ waited' = waited + TransientWait
              /\ waits' = waits + 1
         ELSE UNCHANGED waitVars
    /\ pc' = "iter"
    /\ UNCHANGED << static, loopVars, cursor, tweet, reason, ret, raised,
                    searchHist, attempts, external, skipped, sleepVars >>

\* except tweepy.TweepError as e: sleep 240 s when the reason says the
\* request could not be sent; return False.
HandleTweepError ==
    /\ pc = "except"
    /\ IF Contains(FailedToSendRequest, reason)
         THEN /\ waited' = waited + TransientWait
              /\ waits' = waits + 1
         ELSE UNCHANGED waitVars
    /\ ret' = "False"
    /\ pc' = "ret"
    /\ UNCHANGED << static, loopVars, cursor, tweet, reason, raised, searchHist,
                    attempts, external, skipped, sleepVars >>

\* The for loop without its fall-through: any return ends the iteration.
LoopReturnStopsAtFirst ==
    /\ pc = "ret"
    /\ successful_query_idx' = IF Truthy(ret) THEN i ELSE successful_query_idx
    /\ i' = i
    /\ pc' = "backoff"
    /\ nItems' = 0
    /\ pos' = 0
    /\ tweet' = NoTweet
    /\ reason' = NoReason
    /\ waited' = 0
    /\ waits' = 0
    /\ skipped' = 0
    /\ barren' = IF pos = nItems /\ skipped = pos
                   THEN barren \cup {i} ELSE barren
    /\ UNCHANGED << static, ret, raised, searched, attempts, external,
                    sleepVars >>

\* The for loop without its break: the index is recorded and the loop goes on.
LoopReturnNoBreak ==
    /\ pc = "ret"
    /\ successful_query_idx' = IF Truthy(ret) THEN i ELSE successful_query_idx
    /\ IF i + 1 < Len(query_list)
         THEN i' = i + 1 /\ pc' = "for"
         ELSE i' = i /\ pc' = "backoff"
    /\ nItems' = 0
    /\ pos' = 0
    /\ tweet' = NoTweet
    /\ reason' = NoReason
    /\ waited' = 0
    /\ waits' = 0
    /\ skipped' = 0
    /\ barren' = IF pos = nItems /\ skipped = pos
                   THEN barren \cup {i} ELSE barren
    /\ UNCHANGED << static, ret, raised, searched, attempts, external,
                    sleepVars >>

\* if try_search_and_retweet(...): successful_query_idx = i; break
\* otherwise the for loop goes on to the next entry of query_list, if any.
\* The locals of the call that returned are gone.
LoopReturn ==
    /\ pc = "ret"
    /\ IF Truthy(ret)
         THEN /\ successful_query_idx' = i
              /\ i' = i
              /\ pc' = "backoff"
         ELSE /\ successful_query_idx' = successful_query_idx
              /\ IF i + 1 < Len(query_list)
                   THEN i' = i + 1 /\ pc' = "for"
                   ELSE i' = i /\ pc' = "backoff"
    /\ nItems' = 0
    /\ pos' = 0
    /\ tweet' = NoTweet
    /\ reason' = NoReason
    /\ waited' = 0
    /\ waits' = 0
    /\ skipped' = 0
    /\ barren' = IF pos = nItems /\ skipped = pos
                   THEN barren \cup {i} ELSE barren
    /\ UNCHANGED << static, ret, raised, searched, attempts, external,
                    sleepVars >>

\* The status line and the sleep with no loop around them: search_loop
\* returns and the main block goes on.
BackoffThenReturn ==
    /\ pc = "backoff"
    /\ IF successful_query_idx = None
         THEN /\ status' = "found nothing to share"
              /\ announced' = NotFoundAnnounced
              /\ backoff' = backoff + NotFoundSleep
         ELSE /\ status' = "found something to share"
              /\ announced' = FoundAnnounced
              /\ backoff' = backoff + FoundSleep
    /\ backoffs' = backoffs + 1
    /\ pc' = "main"
    /\ UNCHANGED << static, loopVars, cursor, tweet, reason, ret, raised,
                    searchHist, attempts, external, waitVars, skipped >>

\* The status line and the sleep that end a cycle.
Backoff ==
    /\ pc = "backoff"
    /\ IF successful_query_idx = None
         THEN /\ status' = "found nothing to share"
              /\ announced' = NotFoundAnnounced
              /\ backoff' = backoff + NotFoundSleep
         ELSE /\ status' = "found something to share"
              /\ announced' = FoundAnnounced
              /\ backoff' = backoff + FoundSleep
    /\ backoffs' = backoffs + 1
    /\ pc' = "while"
    /\ UNCHANGED << static, loopVars, cursor, tweet, reason, ret, raised,
                    searchHist, attempts, external, waitVars, skipped >>

Next ==
    \/ StartCycle
    \/ Search
    \/ NextTweet
    \/ Exhausted
    \/ SearchRaises
    \/ SkipBlockedAccount
    \/ SkipBlockedWord
    \/ PassFilters
    \/ RetweetDryRun
    \/ RetweetSucceeds
    \/ RetweetTweepError
    \/ RetweetOtherError
    \/ HandleTweepError
    \/ LoopReturn
    \/ Backoff

Spec == Init /\ [][Next]_vars

\* The runs in which no search raises and tweet.retweet() raises nothing but
\* TweepError. The single thread always takes its next step: every call and
\* every sleep returns.
NextNoRaise ==
    \/ StartCycle
    \/ Search
    \/ NextTweet
    \/ Exhausted
    \/ SkipBlockedAccount
    \/ SkipBlockedWord
    \/ PassFilters
    \/ RetweetDryRun
    \/ RetweetSucceeds
    \/ RetweetTweepError
    \/ HandleTweepError
    \/ LoopReturn
    \/ Backoff

LiveSpec == Init /\ [][NextNoRaise]_vars /\ WF_vars(NextNoRaise)

\* The main block up to the call of search_loop, for any query files.
QueryInit ==
    /\ config \in {c \in Configs : c.block_accounts = {} /\ c.block_words = {}}
    /\ env \in Envs
    /\ queries = NoQueries
    /\ pc = "make_queries"
    /\ Fresh

\* queries = make_queries(os.environ)
MakeQueries ==
    /\ pc = "make_queries"
    /\ queries' = make_queries(env)
    /\ pc' = "while"
    /\ UNCHANGED << config, env, loopVars, cursor, tweet, reason, ret, raised,
                    searchHist, attempts, external, waitVars, skipped,
                    sleepVars >>

QueryNext == MakeQueries

QuerySpec == QueryInit /\ [][QueryNext]_vars

\* ---------------------------------------------------------------- claims

\* C1: a candidate whose author's screen name is in config.block_accounts is
\* never handed to retweet (real or dry run): no attempt of the cycle is on
\* such a candidate, and the step that inspects one leaves the attempts
\* alone and goes back to the for statement over the same cursor.
C1_Inv ==
    /\ \A k \in DOMAIN attempts :
           attempts[k].tweet.user \notin config.block_accounts
    /\ pc \in {"try", "except"} => tweet.user \notin config.block_accounts

C1_Step ==
    (pc = "filter" /\ tweet.user \in config.block_accounts)
        => /\ pc' = "iter"
           /\ attempts' = attempts
           /\ external' = external
           /\ cursor' = cursor

C1_BlockedAccountNeverRetweeted == []C1_Inv /\ [][C1_Step]_vars

\* A candidate of a blocked account was skipped and the cursor has more.
C1_Witness ==
    /\ pc = "iter"
    /\ tweet.user \in config.block_accounts
    /\ skipped >= 1
    /\ pos < nItems

\* word occurs in text: at some position its symbols follow one another.
OccursIn(word, text) ==
    \E from \in 1..(Len(text) + 1) :
        /\ from + Len(word) - 1 <= Len(text)
        /\ \A k \in 1..Len(word) : text[from + k - 1] = word[k]

C2_HasBlockWord(t) == \E word \in config.block_words : OccursIn(word, t.text)

\* C2: a candidate whose text holds an element of config.block_words as a
\* substring (symbols compared as they are, case included) is never handed
\* to retweet; the step that inspects one leaves the attempts alone and goes
\* back to the for statement over the same cursor.
C2_Inv ==
    /\ \A k \in DOMAIN attempts : ~C2_HasBlockWord(attempts[k].tweet)
    /\ pc \in {"try", "except"} => ~C2_HasBlockWord(tweet)

C2_Step ==
    (pc = "filter" /\ C2_HasBlockWord(tweet))
        => /\ pc' = "iter"
           /\ attempts' = attempts
           /\ external' = external
           /\ cursor' = cursor

C2_BlockedWordNeverRetweeted == []C2_Inv /\ [][C2_Step]_vars

\* A candidate of an account that is not blocked was skipped for a block
\* word that is a proper part of its text, and the cursor has more.
C2_Witness ==
    /\ pc = "iter"
    /\ tweet.user \notin config.block_accounts
    /\ \E word \in config.block_words :
           /\ word # << >>
           /\ word # tweet.text
           /\ OccursIn(word, tweet.text)
    /\ << >> \notin config.block_words
    /\ skipped >= 1
    /\ pos < nItems


\* The attempts of the call in progress (or just returned): each index is
\* searched once per cycle.
C3_Mine == {k \in DOMAIN attempts : attempts[k].idx = i}

\* C3: one call of try_search_and_retweet makes at most one reshare attempt;
\* it is made on the first item that passes both filters, every item before
\* it having been skipped, and the cursor is not advanced after it, whether
\* the attempt succeeded or failed with TweepError. The whole sequence is
\* consumed only when none of its items was acceptable.
C3_OneAttemptOnFirstAcceptable ==
    pc \in {"iter", "filter", "try", "except", "ret"} =>
        /\ Cardinality(C3_Mine) <= 1
        /\ C3_Mine # {} =>
              /\ pc \in {"except", "ret"}
              /\ C3_Mine = {Len(attempts)}
              /\ attempts[Len(attempts)].tweet = tweet
              /\ tweet.user \notin config.block_accounts
              /\ ~C2_HasBlockWord(tweet)
              /\ pos = skipped + 1
              /\ pos <= nItems
              /\ pc = "ret" => ret \in {"True", "False"}
        /\ (pc = "ret" /\ C3_Mine = {}) =>
              /\ pos = nItems
              /\ skipped = pos
              /\ ret = "None"

\* Item 1 was skipped, the attempt on item 2 failed and the call returned
\* with item 3 never taken from the cursor.
C3_Witness ==
    /\ pc = "ret"
    /\ ret = "False"
    /\ C3_Mine # {}
    /\ skipped = 1
    /\ pos = 2
    /\ nItems = 3

\* C4 as stated: a cycle with any reshare attempt, failed ones included, ends
\* the iteration at that strategy and sleeps 1600 seconds.
C4_AnyAttemptEndsCycle ==
    (pc = "while" /\ backoffs = 1 /\ attempts # << >>) =>
        /\ Len(attempts) = 1
        /\ searched[Len(searched)] = attempts[1].idx
        /\ backoff = 1600

\* C4 as the code has it: a reshare that succeeds (a dry run included) ends
\* the iteration at its strategy, which is recorded, and the cycle sleeps
\* 1600 seconds; a reshare that fails with TweepError does not: the next
\* strategy is searched, and a cycle whose attempts all failed has searched
\* all three strategies and sleeps 600 seconds.
C4_SuccessEndsCycle ==
    (pc = "while" /\ backoffs = 1) =>
        /\ (\E k \in DOMAIN attempts : attempts[k].outcome \in {"ok", "dry"}) =>
              /\ attempts[Len(attempts)].outcome \in {"ok", "dry"}
              /\ \A k \in 1..(Len(attempts) - 1) :
                    attempts[k].outcome = "TweepError"
              /\ searched[Len(searched)] = attempts[Len(attempts)].idx
              /\ successful_query_idx = attempts[Len(attempts)].idx
              /\ backoff = 1600
        /\ (\A k \in DOMAIN attempts : attempts[k].outcome = "TweepError") =>
              /\ searched = <<0, 1, 2>>
              /\ successful_query_idx = None
              /\ backoff = 600

\* A cycle whose first attempt failed and whose second succeeded.
C4_Witness ==
    /\ pc = "while"
    /\ backoffs = 1
    /\ Len(attempts) = 2
    /\ attempts[1].outcome = "TweepError"
    /\ attempts[2].outcome = "ok"
    /\ backoff = 1600

\* C5: a cycle in which every strategy searched yields no acceptable
\* candidate (its cursor yields nothing, or only items a filter skips)
\* searches the three strategies once each, in order, attempts no reshare,
\* prints the "found nothing to share" line and sleeps 600 seconds, once.
C5_NothingAcceptable ==
    (/\ pc = "while"
     /\ backoffs >= 1
     /\ \A k \in DOMAIN searched : searched[k] \in barren) =>
        /\ searched = <<0, 1, 2>>
        /\ attempts = << >>
        /\ external = 0
        /\ successful_query_idx = None
        /\ status = "found nothing to share"
        /\ backoff = 600
        /\ backoffs = 1

\* Such a cycle has ended.
C5_Witness ==
    /\ pc = "while"
    /\ backoffs = 1
    /\ barren = {0, 1, 2}
    /\ status = "found nothing to share"

\* C6 as stated: no tweet is the target of two reshare attempts of a cycle.
C6_NoCandidateAttemptedTwice ==
    \A j, k \in DOMAIN attempts :
        j # k => attempts[j].tweet # attempts[k].tweet

\* C6 as the code has it: the attempts of a cycle belong to different
\* strategies, in the order of query_list, and all but the last failed with
\* TweepError; so a tweet is attempted at most once per strategy and never
\* again after its reshare succeeded, but a later strategy may attempt a
\* tweet whose reshare failed earlier in the cycle.
C6_OneAttemptPerStrategy ==
    /\ Len(attempts) <= 3
    /\ \A j, k \in DOMAIN attempts :
          j < k => /\ attempts[j].idx < attempts[k].idx
                   /\ attempts[j].outcome = "TweepError"

\* The same tweet attempted by two strategies of one cycle.
C6_Witness ==
    /\ Len(attempts) >= 2
    /\ attempts[1].tweet = attempts[2].tweet
    /\ attempts[1].idx # attempts[2].idx


\* C7: in a dry run tweet.retweet() is never called, every attempt is the
\* dry-run branch, a call whose last item passes both filters returns True,
\* and a cycle with such a candidate records its strategy, searches no
\* strategy after it, prints "found something to share" and sleeps 1600
\* seconds.
C7_DryRunFound ==
    config.dryrun =>
        /\ external = 0
        /\ \A k \in DOMAIN attempts : attempts[k].outcome = "dry"
        /\ (/\ pc = "ret"
            /\ tweet # NoTweet
            /\ tweet.user \notin config.block_accounts
            /\ ~C2_HasBlockWord(tweet)) =>
              /\ ret = "True"
              /\ attempts # << >>
              /\ attempts[Len(attempts)].tweet = tweet
        /\ (pc \in {"backoff", "while"} /\ attempts # << >>) =>
              /\ Len(attempts) = 1
              /\ successful_query_idx = attempts[1].idx
              /\ searched[Len(searched)] = attempts[1].idx
        /\ (pc = "while" /\ attempts # << >>) =>
              /\ status = "found something to share"
              /\ backoff = 1600

\* A dry-run cycle found its candidate in the second strategy and slept
\* without searching the third.
C7_Witness ==
    /\ config.dryrun
    /\ pc = "while"
    /\ attempts # << >>
    /\ searched = <<0, 1>>
    /\ backoff = 1600

\* C8: after a TweepError the call returns False, having slept 240 seconds
\* exactly once when "Failed to send request" occurs in the reason and not
\* at all otherwise.
C8_TransientWait ==
    (pc = "ret" /\ reason # NoReason) =>
        /\ ret = "False"
        /\ waits = (IF OccursIn(FailedToSendRequest, reason) THEN 1 ELSE 0)
        /\ waited = 240 * waits

\* The call waited once for a reason that holds the phrase after other words.
C8_Witness ==
    /\ pc = "ret"
    /\ reason # NoReason
    /\ reason[1] # "Failed"
    /\ waits = 1
    /\ waited = 240

\* C9: a TweepError of the reshare goes to the except clause and from there
\* to a False return; the caller then searches the next strategy of the
\* cycle, or sleeps when it was the last; the exception never leaves
\* search_loop, and a new cycle starts afterwards.
C9_Step ==
    /\ pc = "try" => pc' \in {"ret", "except"}
    /\ pc = "except" => (pc' = "ret" /\ ret' = "False")
    /\ (pc = "ret" /\ reason # NoReason) =>
          /\ successful_query_idx' = None
          /\ IF i + 1 < 3
               THEN pc' = "for" /\ i' = i + 1
               ELSE pc' = "backoff"

C9_TweepErrorContained ==
    /\ [](raised = "none" /\ pc # "crashed")
    /\ [][C9_Step]_vars
    /\ (pc = "except") ~> (pc = "for" /\ i = 0 /\ searched = << >>)

\* After a failed reshare in the first strategy the second is about to be
\* searched.
C9_Witness ==
    /\ pc = "for"
    /\ i = 1
    /\ Len(attempts) = 1
    /\ attempts[1].outcome = "TweepError"

\* C10: search_loop never returns and never stops: control stays inside the
\* loop, every cycle ends with exactly one sleep after its for loop, that
\* sleep is followed by the start of a cycle, and a new cycle begins again
\* and again.
C10_Inside ==
    /\ pc \in {"while", "for", "iter", "filter", "try", "except", "ret",
               "backoff"}
    /\ backoffs = (IF pc = "while" /\ searched # << >> THEN 1 ELSE 0)

C10_Step ==
    /\ pc = "backoff" => pc' = "while"
    /\ pc = "while" => (pc' = "for" /\ searched' = << >> /\ backoffs' = 0)

C10_NoTerminalState ==
    /\ []C10_Inside
    /\ [][C10_Step]_vars
    /\ []<>(pc = "for" /\ i = 0 /\ searched = << >>)

\* A cycle has ended with its sleep and the next one can start.
C10_Witness ==
    /\ pc = "while"
    /\ backoffs = 1
    /\ searched # << >>
    /\ ENABLED StartCycle


\* The fragment of a line: what lies between its first and its last token
\* that is not white space.
C11_Fragment(line) ==
    LET solid == {k \in 1..Len(line) : line[k] \notin {" ", "\n"}}
    IN  IF solid = {} THEN << >>
        ELSE SubSeq(line,
                    CHOOSE k \in solid : \A m \in solid : k <= m,
                    CHOOSE k \in solid : \A m \in solid : m <= k)

\* "(f1) OR (f2) OR ... OR (fn)" for the first n lines of a file.
RECURSIVE C11_Ored(_, _)
C11_Ored(lines, n) ==
    IF n = 1 THEN <<"(">> \o C11_Fragment(lines[1]) \o <<")">>
    ELSE C11_Ored(lines, n - 1)
            \o <<" OR ">> \o <<"(">> \o C11_Fragment(lines[n]) \o <<")">>

C11_Expected(lines, handle) ==
    C11_Ored(lines, Len(lines))
        \o <<" -filter:retweets AND -filter:replies AND -from:">> \o handle

\* C11: for each of the direct, indirect and popular files with n >= 1
\* lines, make_queries yields "(f1) OR ... OR (fn) -filter:retweets AND
\* -filter:replies AND -from:h", the fragments in file order; the lines #foo
\* and #bar with the handle acct yield "(#foo) OR (#bar) -filter:retweets
\* AND -filter:replies AND -from:acct".
C11_QueryBuilder ==
    pc = "while" =>
        /\ \A f \in {"direct", "indirect", "popular"} :
              Len(env[f]) >= 1 =>
                  queries[f] = C11_Expected(env[f], env.twitter_handle)
        /\ (/\ env.direct = << <<"#foo", "\n">>, <<"#bar", "\n">> >>
            /\ env.twitter_handle = <<"acct">>) =>
              queries.direct =
                  <<"(", "#foo", ")", " OR ", "(", "#bar", ")",
                    " -filter:retweets AND -filter:replies AND -from:",
                    "acct">>

\* The queries of the example are built, beside a file whose line has white
\* space around and inside its fragment.
C11_Witness ==
    /\ pc = "while"
    /\ env.direct = << <<"#foo", "\n">>, <<"#bar", "\n">> >>
    /\ env.twitter_handle = <<"acct">>
    /\ Len(env.popular) = 2
    /\ env.popular[1][1] = " "
    /\ queries.popular[2] = "#baz"
    /\ queries.direct[2] = "#foo"


\* C12 as stated: the search issued after the direct one is the indirect
\* query.
C12_IndirectIsSecond ==
    Len(searched) >= 2 =>
        /\ query_list[searched[1] + 1].query = "direct"
        /\ query_list[searched[2] + 1].query = "indirect"

\* C13: the strategies of a cycle are searched in the order of query_list,
\* each at most once; a reshare that succeeds is the only one of its cycle
\* that does and the last attempt, every strategy before its own was
\* searched without success, none after it is searched, and its index is
\* the one recorded.
C13_FixedOrderShortCircuit ==
    /\ Len(searched) <= 3
    /\ \A k \in DOMAIN searched : searched[k] = k - 1
    /\ \A k \in DOMAIN attempts :
          attempts[k].outcome \in {"ok", "dry"} =>
              /\ k = Len(attempts)
              /\ \A j \in 1..(k - 1) : attempts[j].outcome = "TweepError"
              /\ \A j \in 1..(k - 1) : attempts[j].idx < attempts[k].idx
              /\ searched[Len(searched)] = attempts[k].idx
              /\ pc \in {"backoff", "while"} =>
                    successful_query_idx = attempts[k].idx
    /\ successful_query_idx # None =>
          /\ attempts # << >>
          /\ attempts[Len(attempts)].outcome \in {"ok", "dry"}
          /\ attempts[Len(attempts)].idx = successful_query_idx

\* The second strategy's reshare succeeded after the first's failed; the
\* third was not searched.
C13_Witness ==
    /\ pc = "while"
    /\ successful_query_idx = 1
    /\ searched = <<0, 1>>
    /\ Len(attempts) = 2
    /\ attempts[2].outcome = "ok"

\* C14: an error of the searcher ends the run where it is raised: control
\* never comes back, the call that raised made no reshare attempt, and the
\* cycle has no status line and no sleep after its for loop.
C14_SearchErrorFatal ==
    raised = "search_error" =>
        /\ pc = "crashed"
        /\ ~ENABLED Next
        /\ \A k \in DOMAIN attempts : attempts[k].idx # i
        /\ searched[Len(searched)] = i
        /\ backoffs = 0
        /\ backoff = 0
        /\ status = "none"

\* The second strategy's cursor raised after an item of it was skipped, the
\* first strategy's reshare having failed.
C14_Witness ==
    /\ pc = "crashed"
    /\ raised = "search_error"
    /\ i = 1
    /\ skipped >= 1
    /\ Len(attempts) = 1

\* C15 as stated: the seconds slept after the for loop are the seconds the
\* status line names, 800 after nothing was found and 1600 otherwise.
C15_SleptAsAnnounced ==
    (pc = "while" /\ backoffs = 1) =>
        /\ backoff = announced
        /\ announced =
              (IF status = "found nothing to share" THEN 800 ELSE 1600)

\* C16: nothing of a cycle reaches the next one. Every cycle starts in the
\* state the first cycle started in: the success index is none, no local
\* and no observation of an earlier cycle is left; config, the query files
\* and the queries never change. The steps of a cycle being functions of
\* this state and of the cycle's own search results and reshare outcomes,
\* two runs given the same ones in a cycle behave alike in it.
C16_CycleStartsFresh ==
    /\ []((pc = "for" /\ i = 0) => Fresh)
    /\ [][static' = static]_vars

\* A cycle that found something has ended and the next one is about to start.
C16_Witness ==
    /\ pc = "while"
    /\ backoffs = 1
    /\ successful_query_idx # None
    /\ attempts # << >>
    /\ ENABLED StartCycle

C17_Acceptable(t) ==
    /\ t.user \notin config.block_accounts
    /\ \A word \in config.block_words : ~OccursIn(word, t.text)

\* C17: an inspected candidate reaches the reshare step exactly when its
\* author is not blocked and no block word occurs in its text; and when the
\* empty string is among the block words (a blank line of the words file),
\* no reshare is ever attempted and every cycle that ends, ends with
\* "found nothing to share" after its three searches.
C17_Inv ==
    /\ pc = "try" => C17_Acceptable(tweet)
    /\ << >> \in config.block_words =>
          /\ attempts = << >>
          /\ external = 0
          /\ pc \notin {"try", "except"}
          /\ successful_query_idx = None
          /\ (pc = "while" /\ backoffs = 1) =>
                /\ status = "found nothing to share"
                /\ searched = <<0, 1, 2>>

C17_Step == pc = "filter" => (pc' = "try" <=> C17_Acceptable(tweet))

C17_ReshareIffAcceptable == []C17_Inv /\ [][C17_Step]_vars

\* With only the empty string blocked, a candidate with a text, of an
\* account that is not blocked, was skipped.
C17_Witness ==
    /\ config.block_words = {<< >>}
    /\ pc = "iter"
    /\ skipped >= 1
    /\ tweet.user \notin config.block_accounts
    /\ tweet.text # << >>

====
